---- MODULE Spec2Model ----
(***************************************************************************)
(* Single period optimization strategy (SPO) of investos:                  *)
(* investos/portfolio_optimization/strategy/spo.py.                        *)
(*                                                                         *)
(* The strategy object `self` holds the configuration and, once a call has *)
(* built one, a reference to a cvxpy Problem (self.prob).  A call of       *)
(* generate_trade_list runs on a thread; its position is pc[c].  The       *)
(* points where a call touches the shared attribute self.prob (the store   *)
(* of line 74, the loads of lines 80, 82 and 86) and its own variable z    *)
(* (line 90) are separate steps, so that two calls can interleave there.   *)
(*                                                                         *)
(* Numbers are integers: holdings are whole currency units and z.value is  *)
(* a vector of whole trade units; the solver's numerical tolerance is not  *)
(* modelled.  Expressions of cvxpy are records carrying the answers of     *)
(* is_concave / is_convex / is_dcp.                                        *)
(***************************************************************************)
EXTENDS Integers, Sequences, FiniteSets, TLC

VARIABLES self, pc, hold, heap, outcome, solveRes, usedObj, entry

vars == <<self, pc, hold, heap, outcome, solveRes, usedObj, entry>>

(***************************************************************************)
(* Bounds of the model.                                                    *)
(***************************************************************************)
MaxPos == 1
ZMax == 1
MaxCosts == 1
MaxCons == 1

(***************************************************************************)
(* Threads that call generate_trade_list.  The backtester drives the       *)
(* strategy from one thread (Spec); SpecConc lets two calls interleave.    *)
(***************************************************************************)
Threads == {"t1", "t2"}
MainThread == "t1"

RECURSIVE Sum(_)
Sum(s) == IF s = <<>> THEN 0 ELSE Head(s) + Sum(Tail(s))

RECURSIVE Concat(_)
Concat(ss) == IF ss = <<>> THEN <<>> ELSE Head(ss) \o Concat(Tail(ss))

SeqsUpTo(S, n) == UNION {[1..k -> S] : k \in 0..n}

(***************************************************************************)
(* Inputs: holdings, a pandas Series (an ordered index of asset keys and   *)
(* one position per key, the cash entry included).                         *)
(***************************************************************************)
IndexOrders == {<<"A", "cash">>, <<"cash", "A">>, <<"cash">>}
HoldVals == (0 - 1)..MaxPos
HoldingsInputs ==
    UNION {{[index |-> ix, data |-> d] : d \in [1..Len(ix) -> HoldVals]} : ix \in IndexOrders}
ConcHoldings == {h \in HoldingsInputs : \A i \in 1..Len(h.data) : h.data[i] = MaxPos}
NoHoldings == [index |-> <<>>, data |-> <<>>]

(***************************************************************************)
(* Collaborators: cost providers return (cost_expr, [constraint, ...]),    *)
(* constraint providers return one constraint expression.                  *)
(***************************************************************************)
Expr(id, ok) == [id |-> id, ok |-> ok]
CostProviders ==
    { [id |-> "TradingCost", expr |-> Expr("tc", TRUE), extras |-> <<>>],
      [id |-> "HoldingCost", expr |-> Expr("hc", TRUE), extras |-> <<Expr("hc_aux", TRUE)>>],
      [id |-> "NonConvexCost", expr |-> Expr("ncc", FALSE), extras |-> <<>>],
      [id |-> "NonDcpAuxCost", expr |-> Expr("nac", TRUE), extras |-> <<Expr("nac_aux", FALSE)>>] }
ConstraintProviders ==
    { [id |-> "MaxWeightConstraint", expr |-> Expr("maxw", TRUE)],
      [id |-> "NonDcpConstraint", expr |-> Expr("nondcp", FALSE)] }
DefaultConstraints ==
    << [id |-> "MaxWeightConstraint", expr |-> Expr("maxw", TRUE)],
       [id |-> "MinWeightConstraint", expr |-> Expr("minw", TRUE)],
       [id |-> "MaxLeverageConstraint", expr |-> Expr("maxlev", TRUE)] >>
PyNone == "<None>"
Solvers == {PyNone, "ECOS"}
ForecastProviders == {[id |-> "forecast", affine |-> TRUE], [id |-> "forecast_expr", affine |-> FALSE]}
NoProb == "no_prob"


(***************************************************************************)
(* Results of a call: a returned Series, or an exception that reaches the  *)
(* caller.                                                                 *)
(***************************************************************************)
Pending == [kind |-> "pending", index |-> <<>>, data |-> <<>>, exc |-> "", msg |-> <<>>]
Returned(series) ==
    [kind |-> "trades", index |-> series.index, data |-> series.data, exc |-> "", msg |-> <<>>]
Raised(type, msg) == [kind |-> "raise", index |-> <<>>, data |-> <<>>, exc |-> type, msg |-> msg]
Exc(type, msg) == [type |-> type, msg |-> msg]

(***************************************************************************)
(* SPO.__init__ and the backtester's late binding of forecast_returns and  *)
(* optimizer.  No attribute prob exists before the first call.             *)
(***************************************************************************)
Construct(costs, constraints, solver, forecast) ==
    [ forecast_returns |-> forecast,
      optimizer |-> "backtester",
      costs |-> costs,
      constraints |-> constraints,
      solver |-> solver,
      solver_opts |-> "{}",
      prob |-> NoProb ]

(***************************************************************************)
(* generate_trade_list, lines 47-77: the program that is built.            *)
(***************************************************************************)
Value(h) == Sum(h.data)

ZSize(h) == Len(h.data)

AlphaTerm(forecast) == Expr("alpha", forecast.affine)

CostExprs(costs) == [i \in 1..Len(costs) |-> costs[i].expr]

CostConstraints(costs) == Concat([i \in 1..Len(costs) |-> costs[i].extras])

ProviderConstraints(cons) == [i \in 1..Len(cons) |-> cons[i].expr]

CollectedConstraints(s) == CostConstraints(s.costs) \o ProviderConstraints(s.constraints)

ChecksSkipConstraints(alpha, costs, constraints) ==
    /\ alpha.ok
    /\ \A i \in 1..Len(costs) : costs[i].ok

ChecksPass(alpha, costs, constraints) ==
    /\ alpha.ok
    /\ \A i \in 1..Len(costs) : costs[i].ok
    /\ \A i \in 1..Len(constraints) : constraints[i].ok

SumZero == Expr("sum(z) == 0", TRUE)
NoValue == <<>>

ProblemWithCosts(alpha, costs, constraints, n) ==
    [ objective |-> <<alpha.id>> \o [i \in 1..Len(costs) |-> costs[i].id],
      constraints |-> <<SumZero>> \o constraints,
      n |-> n, status |-> PyNone, zvalue |-> NoValue ]

ProblemNoSumZero(alpha, costs, constraints, n) ==
    [ objective |-> <<alpha.id>>,
      constraints |-> constraints,
      n |-> n, status |-> PyNone, zvalue |-> NoValue ]

Problem(alpha, costs, constraints, n) ==
    [ objective |-> <<alpha.id>>,
      constraints |-> <<SumZero>> \o constraints,
      n |-> n, status |-> PyNone, zvalue |-> NoValue ]

NoProblem == [objective |-> <<>>, constraints |-> <<>>, n |-> 0, status |-> PyNone, zvalue |-> NoValue]

(***************************************************************************)
(* The solver behind Problem.solve (line 80).  It either raises, or        *)
(* returns with a status; with a solution-present status the variable z    *)
(* holds an assignment that satisfies the constraints of the problem, with *)
(* any other status z.value is None.  Which status comes out is left open. *)
(* Of the constraints only sum(z) == 0 is interpreted; what the providers  *)
(* emit is opaque, so any assignment may satisfy it.                       *)
(***************************************************************************)
SolutionPresent == {"optimal", "optimal_inaccurate"}
InfOrUnb == {"infeasible", "infeasible_inaccurate", "unbounded", "unbounded_inaccurate"}
SolverExceptions == {"SolverError", "TypeError", "ValueError"}

Sat(e, zv) == (e.id = SumZero.id) => (Sum(zv) = 0)

Feasible(p) ==
    {zv \in [1..p.n -> (0 - ZMax)..ZMax] : \A i \in 1..Len(p.constraints) : Sat(p.constraints[i], zv)}

NoSolve == [called |-> FALSE, raised |-> "", status |-> "", zvalue |-> NoValue]

SolverResults(p) ==
    {[called |-> TRUE, raised |-> e, status |-> "", zvalue |-> NoValue] : e \in SolverExceptions}
    \cup {[called |-> TRUE, raised |-> "", status |-> st, zvalue |-> NoValue] : st \in InfOrUnb}
    \cup {[called |-> TRUE, raised |-> "", status |-> st, zvalue |-> zv] :
            st \in SolutionPresent, zv \in Feasible(p)}

(***************************************************************************)
(* Lines 82-94: interpreting the status, and the except clause.            *)
(***************************************************************************)
NoUnboundedBranch(status) == FALSE

UnboundedBranch(status) == status = "unbounded"

NoInfeasibleBranch(status) == FALSE

InfeasibleBranch(status) == status = "infeasible"

CaughtAll(type) == TRUE

CaughtSolverErrorOnly(type) == type = "SolverError"

Caught(type) == type \in {"SolverError", "TypeError"}

Str(x) == IF x = PyNone THEN "None" ELSE x

SolverFailedMessage(solver) == <<"The solver ", Str(solver), " failed">>

InfeasibleMessage == <<"The problem is infeasible">>

HandleInTry(exc, solver) ==
    IF Caught(exc.type)
    THEN Raised("Exception", SolverFailedMessage(solver))
    ELSE Raised(exc.type, exc.msg)

UnscaledTrades(h, zv, value) ==
    [index |-> h.index, data |-> [i \in 1..Len(zv) |-> zv[i]]]

ScaledTrades(h, zv, value) ==
    [index |-> h.index, data |-> [i \in 1..Len(zv) |-> zv[i] * value]]

\* BaseStrategy._zerotrade: a zero trade for every asset of holdings.
ZeroTrade(h) == [index |-> h.index, data |-> [i \in 1..Len(h.index) |-> 0]]


(***************************************************************************)
(* State after construction and set-up by the backtester.                  *)
(***************************************************************************)
Configurations ==
    { Construct(costs, constraints, solver, forecast) :
        costs \in SeqsUpTo(CostProviders, MaxCosts),
        constraints \in SeqsUpTo(ConstraintProviders, MaxCons) \cup {DefaultConstraints},
        solver \in Solvers,
        forecast \in ForecastProviders }

\* SPO() with the defaults of __init__: no costs, the three standard constraints.
DefaultConfiguration ==
    Construct(<<>>, DefaultConstraints, PyNone, [id |-> "forecast", affine |-> TRUE])

InitWith(configs) ==
    /\ self \in configs
    /\ pc = [c \in Threads |-> "idle"]
    /\ hold = [c \in Threads |-> NoHoldings]
    /\ heap = [c \in Threads |-> NoProblem]
    /\ outcome = [c \in Threads |-> Pending]
    /\ solveRes = [c \in Threads |-> NoSolve]
    /\ usedObj = [c \in Threads |-> {}]
    /\ entry = [c \in Threads |-> [self |-> self, hold |-> NoHoldings]]

Init == InitWith(Configurations)

InitConc == InitWith({DefaultConfiguration})

(***************************************************************************)
(* Lines 44-77: a call starts on thread c with holdings h, builds the      *)
(* expressions, asserts their curvature, and stores the problem in         *)
(* self.prob.  A failed assertion ends the call with AssertionError.       *)
(***************************************************************************)
Build(c, inputs, again) ==
    /\ pc[c] \in (IF again THEN {"idle", "done"} ELSE {"idle"})
    /\ \E h \in inputs :
        LET alpha == AlphaTerm(self.forecast_returns)
            costs == CostExprs(self.costs)
            constraints == CollectedConstraints(self)
        IN  /\ hold' = [hold EXCEPT ![c] = h]
            /\ entry' = [entry EXCEPT ![c] = [self |-> self, hold |-> h]]
            /\ solveRes' = [solveRes EXCEPT ![c] = NoSolve]
            /\ usedObj' = [usedObj EXCEPT ![c] = {}]
            /\ IF ChecksPass(alpha, costs, constraints)
               THEN /\ heap' = [heap EXCEPT ![c] = Problem(alpha, costs, constraints, ZSize(h))]
                    /\ self' = [self EXCEPT !.prob = c]
                    /\ outcome' = [outcome EXCEPT ![c] = Pending]
                    /\ pc' = [pc EXCEPT ![c] = "solve"]
               ELSE /\ outcome' = [outcome EXCEPT ![c] = Raised("AssertionError", <<>>)]
                    /\ pc' = [pc EXCEPT ![c] = "done"]
                    /\ UNCHANGED <<heap, self>>

(***************************************************************************)
(* Line 80: self.prob.solve(solver=self.solver, **self.solver_opts).       *)
(***************************************************************************)
Solve(c) ==
    /\ pc[c] = "solve"
    /\ LET obj == self.prob IN
       \E res \in SolverResults(heap[obj]) :
        /\ solveRes' = [solveRes EXCEPT ![c] = res]
        /\ usedObj' = [usedObj EXCEPT ![c] = @ \cup {obj}]
        /\ IF res.raised # ""
           THEN /\ outcome' = [outcome EXCEPT ![c] =
                                  HandleInTry(Exc(res.raised, <<"raised by the solver">>), self.solver)]
                /\ pc' = [pc EXCEPT ![c] = "done"]
                /\ UNCHANGED heap
           ELSE /\ heap' = [heap EXCEPT ![obj].status = res.status, ![obj].zvalue = res.zvalue]
                /\ pc' = [pc EXCEPT ![c] = "check_unbounded"]
                /\ UNCHANGED outcome
    /\ UNCHANGED <<self, hold, entry>>

(***************************************************************************)
(* Lines 82-84: if self.prob.status == 'unbounded': return zero trades.    *)
(***************************************************************************)
CheckUnbounded(c) ==
    /\ pc[c] = "check_unbounded"
    /\ LET obj == self.prob IN
        /\ usedObj' = [usedObj EXCEPT ![c] = @ \cup {obj}]
        /\ IF UnboundedBranch(heap[obj].status)
           THEN /\ outcome' = [outcome EXCEPT ![c] = Returned(ZeroTrade(hold[c]))]
                /\ pc' = [pc EXCEPT ![c] = "done"]
           ELSE /\ pc' = [pc EXCEPT ![c] = "check_infeasible"]
                /\ UNCHANGED outcome
    /\ UNCHANGED <<self, hold, heap, solveRes, entry>>

(***************************************************************************)
(* Lines 86-88: if self.prob.status == 'infeasible': raise Exception,      *)
(* inside the try block.                                                   *)
(***************************************************************************)
CheckInfeasible(c) ==
    /\ pc[c] = "check_infeasible"
    /\ LET obj == self.prob IN
        /\ usedObj' = [usedObj EXCEPT ![c] = @ \cup {obj}]
        /\ IF InfeasibleBranch(heap[obj].status)
           THEN /\ outcome' = [outcome EXCEPT ![c] =
                                  HandleInTry(Exc("Exception", InfeasibleMessage), self.solver)]
                /\ pc' = [pc EXCEPT ![c] = "done"]
           ELSE /\ pc' = [pc EXCEPT ![c] = "return"]
                /\ UNCHANGED outcome
    /\ UNCHANGED <<self, hold, heap, solveRes, entry>>

(***************************************************************************)
(* Line 90: pd.Series(index=holdings.index, data=(z.value * value)), z the *)
(* call's own variable.  None * value raises TypeError in the try block.   *)
(***************************************************************************)
Return(c) ==
    /\ pc[c] = "return"
    /\ LET zv == heap[c].zvalue IN
        outcome' = [outcome EXCEPT ![c] =
            IF zv = NoValue
            THEN HandleInTry(Exc("TypeError", <<"unsupported operand type(s) for *">>), self.solver)
            ELSE Returned(ScaledTrades(hold[c], zv, Value(hold[c])))]
    /\ pc' = [pc EXCEPT ![c] = "done"]
    /\ UNCHANGED <<self, hold, heap, solveRes, usedObj, entry>>

Step(c, inputs, again) ==
    \/ Build(c, inputs, again)
    \/ Solve(c)
    \/ CheckUnbounded(c)
    \/ CheckInfeasible(c)
    \/ Return(c)

\* The backtester's use: one call after another, on one thread.
Next == Step(MainThread, HoldingsInputs, TRUE)

Spec == Init /\ [][Next]_vars

\* Two threads call the same strategy object once each, with fully invested holdings.
NextConc == \E c \in Threads : Step(c, ConcHoldings, FALSE)

SpecConc == InitConc /\ [][NextConc]_vars


(***************************************************************************)
(* Properties.                                                             *)
(***************************************************************************)
Done(c) == pc[c] = "done"

\* The solve of call c returned (did not raise) with status st.
SolverReported(c, st) ==
    /\ solveRes[c].called
    /\ solveRes[c].raised = ""
    /\ solveRes[c].status = st

AllZero(d) == \A i \in 1..Len(d) : d[i] = 0

IsInfeasibleFailure(o) == o.kind = "raise" /\ o.exc = "Exception" /\ o.msg = <<"The problem is infeasible">>

\* The 'solver failed' failure, its message naming the solver identifier.
IsSolverFailed(o, solver) ==
    /\ o.kind = "raise"
    /\ o.exc = "Exception"
    /\ o.msg = <<"The solver ", (IF solver = PyNone THEN "None" ELSE solver), " failed">>

IsScaledBy(o, h, zv) ==
    /\ o.kind = "trades"
    /\ zv # NoValue
    /\ Len(o.data) = Len(zv)
    /\ \A i \in 1..Len(zv) : o.data[i] = zv[i] * Value(h)

\* C1: when the solver finishes with status 'unbounded', the call returns
\* normally and the trade list is zero for every asset of holdings, whatever
\* the holdings are.
C1_UnboundedZeroTrade ==
    \A c \in Threads :
        (Done(c) /\ SolverReported(c, "unbounded")) =>
            /\ outcome[c].kind = "trades"
            /\ outcome[c].index = hold[c].index
            /\ Len(outcome[c].data) = Len(hold[c].index)
            /\ AllZero(outcome[c].data)

C1_Witness ==
    \E c \in Threads :
        /\ Done(c) /\ SolverReported(c, "unbounded")
        /\ Value(hold[c]) # 0
        /\ Len(hold[c].index) = 2
        /\ outcome[c].kind = "trades"

\* C2: when the solver finishes with status 'infeasible', no trade list is
\* returned and the failure that reaches the caller is the 'infeasible' one,
\* not the 'solver failed' one.
C2_InfeasibleFailure ==
    \A c \in Threads :
        (Done(c) /\ SolverReported(c, "infeasible")) =>
            /\ IsInfeasibleFailure(outcome[c])
            /\ ~IsSolverFailed(outcome[c], self.solver)

C2_Witness ==
    \E c \in Threads :
        /\ Done(c) /\ SolverReported(c, "infeasible")
        /\ outcome[c].kind = "raise"
        /\ self.solver = "ECOS"

\* C3 as stated: whatever error the solver raises during solve, the call
\* signals the 'solver failed' failure naming self.solver.
C3_AnySolverErrorIsSolverFailed ==
    \A c \in Threads :
        (Done(c) /\ solveRes[c].called /\ solveRes[c].raised # "") =>
            IsSolverFailed(outcome[c], self.solver)

\* C3 amended: a SolverError or TypeError raised by the solver becomes the
\* 'solver failed' failure naming self.solver; any other error raised by the
\* solver reaches the caller as it is; no trade list is returned either way.
C3_CaughtSolverErrors ==
    \A c \in Threads :
        (Done(c) /\ solveRes[c].called /\ solveRes[c].raised # "") =>
            /\ outcome[c].kind = "raise"
            /\ (solveRes[c].raised \in {"SolverError", "TypeError"}
                    => IsSolverFailed(outcome[c], self.solver))
            /\ (solveRes[c].raised \notin {"SolverError", "TypeError"}
                    => /\ outcome[c].exc = solveRes[c].raised
                       /\ ~IsSolverFailed(outcome[c], self.solver))

C3_Witness ==
    \E c \in Threads :
        /\ Done(c)
        /\ solveRes[c].raised = "TypeError"
        /\ self.solver = "ECOS"
        /\ outcome[c].msg = <<"The solver ", "ECOS", " failed">>

\* The cases of a solve that returned or raised, for C4.
ScaledCase(r) == r.raised = "" /\ r.status \notin {"unbounded", "infeasible"} /\ r.zvalue # NoValue
NoValueCase(r) == r.raised = "" /\ r.status \notin {"unbounded", "infeasible"} /\ r.zvalue = NoValue

\* C4 as stated: four outcomes; the scaled trade list only with status
\* 'optimal'; 'solver failed' only if the solver itself raised.
C4_FourOutcomesOnlyOptimal ==
    \A c \in Threads :
        (Done(c) /\ solveRes[c].called) =>
            LET r == solveRes[c]
                o == outcome[c]
            IN  /\ \/ IsScaledBy(o, hold[c], r.zvalue)
                   \/ (o.kind = "trades" /\ AllZero(o.data))
                   \/ IsInfeasibleFailure(o)
                   \/ IsSolverFailed(o, self.solver)
                /\ (o.kind = "trades" /\ r.status # "unbounded") => r.status = "optimal"
                /\ IsSolverFailed(o, self.solver) => r.raised # ""

\* C4 amended: five outcomes.  The scaled trade list is returned exactly when
\* the solver returns with a status other than 'unbounded' and 'infeasible'
\* and z has a value; 'solver failed' is signaled when the solver raised
\* SolverError or TypeError, or returned such a status with no value for z;
\* any other error of the solver reaches the caller as it is.
C4_OutcomeByCase ==
    \A c \in Threads :
        (Done(c) /\ solveRes[c].called) =>
            LET r == solveRes[c]
                o == outcome[c]
            IN  /\ SolverReported(c, "unbounded") => (o.kind = "trades" /\ AllZero(o.data))
                /\ SolverReported(c, "infeasible") => IsInfeasibleFailure(o)
                /\ ScaledCase(r) => IsScaledBy(o, hold[c], r.zvalue)
                /\ (NoValueCase(r) \/ r.raised \in {"SolverError", "TypeError"})
                        => IsSolverFailed(o, self.solver)
                /\ r.raised \notin {"", "SolverError", "TypeError"}
                        => (o.kind = "raise" /\ o.exc = r.raised)
                /\ o.kind = "trades" => (SolverReported(c, "unbounded") \/ ScaledCase(r))
                /\ IsSolverFailed(o, self.solver)
                        => (NoValueCase(r) \/ r.raised \in {"SolverError", "TypeError"})

C4_Witness ==
    \E c \in Threads :
        /\ Done(c)
        /\ SolverReported(c, "optimal_inaccurate")
        /\ outcome[c].kind = "trades"
        /\ ~AllZero(outcome[c].data)

\* C5 as stated: every returned trade list, on the optimal and on the
\* unbounded path, has the keys and order of holdings and the value
\* z.value[i] * value at asset i.
C5_IndexAndScaledEverywhere ==
    \A c \in Threads :
        (Done(c) /\ outcome[c].kind = "trades") =>
            /\ outcome[c].index = hold[c].index
            /\ IsScaledBy(outcome[c], hold[c], heap[c].zvalue)

\* C5 amended: every returned trade list has the keys and order of holdings;
\* its value at asset i is z.value[i] * value on the scaled path and 0 on the
\* unbounded path, where z has no value.
C5_IndexAndValues ==
    \A c \in Threads :
        (Done(c) /\ outcome[c].kind = "trades") =>
            /\ outcome[c].index = hold[c].index
            /\ Len(outcome[c].data) = Len(hold[c].index)
            /\ IF SolverReported(c, "unbounded")
               THEN heap[c].zvalue = NoValue /\ AllZero(outcome[c].data)
               ELSE IsScaledBy(outcome[c], hold[c], heap[c].zvalue)

C5_Witness ==
    \E c \in Threads :
        /\ Done(c)
        /\ outcome[c].kind = "trades"
        /\ outcome[c].index = <<"cash", "A">>
        /\ Value(hold[c]) = 2
        /\ outcome[c].data = <<2, 0 - 2>>

\* C6: with a non-zero total value, the values of a returned trade list sum
\* to zero.
C6_TradesSumToZero ==
    \A c \in Threads :
        (Done(c) /\ outcome[c].kind = "trades" /\ Value(hold[c]) # 0) =>
            Sum(outcome[c].data) = 0

C6_Witness ==
    \E c \in Threads :
        /\ Done(c)
        /\ outcome[c].kind = "trades"
        /\ Value(hold[c]) # 0
        /\ ~AllZero(outcome[c].data)
        /\ Len(self.costs) > 0

\* Some expression of the configured collaborators fails its curvature test.
CurvatureViolated(s) ==
    \/ ~s.forecast_returns.affine
    \/ \E i \in 1..Len(s.costs) :
        \/ ~s.costs[i].expr.ok
        \/ \E j \in 1..Len(s.costs[i].extras) : ~s.costs[i].extras[j].ok
    \/ \E i \in 1..Len(s.constraints) : ~s.constraints[i].expr.ok

\* C7: if the alpha term is not concave, a cost expression is not convex or
\* a collected constraint is not DCP, the call fails before the solver is
\* invoked: no solve happens in it and no trade list is returned.
C7_FailBeforeSolve ==
    \A c \in Threads :
        (pc[c] # "idle" /\ CurvatureViolated(self)) =>
            /\ ~solveRes[c].called
            /\ pc[c] = "done"
            /\ outcome[c].kind = "raise"
            /\ outcome[c].exc = "AssertionError"

C7_Witness ==
    \E c \in Threads :
        /\ Done(c)
        /\ self.forecast_returns.affine
        /\ self.costs = <<>>
        /\ \E i \in 1..Len(self.constraints) : ~self.constraints[i].expr.ok
        /\ outcome[c].exc = "AssertionError"

ExtrasBefore(costs, i) == Sum([k \in 1..(i - 1) |-> Len(costs[k].extras)])

\* C8: the program handed to the solver maximizes the alpha term alone, and
\* its constraints are sum(z) == 0, then every extra constraint of every cost
\* provider, then the expression of every constraint provider.
C8_ProgramComposition ==
    \A c \in Threads :
        (pc[c] # "idle" /\ outcome[c].exc # "AssertionError") =>
            LET p == heap[c]
                nx == ExtrasBefore(self.costs, Len(self.costs) + 1)
            IN  /\ p.objective = <<"alpha">>
                /\ \A i \in 1..Len(self.costs) : \A j \in 1..Len(p.objective) :
                        p.objective[j] # self.costs[i].expr.id
                /\ Len(p.constraints) = 1 + nx + Len(self.constraints)
                /\ p.constraints[1] = [id |-> "sum(z) == 0", ok |-> TRUE]
                /\ \A i \in 1..Len(self.costs) : \A j \in 1..Len(self.costs[i].extras) :
                        p.constraints[1 + ExtrasBefore(self.costs, i) + j] = self.costs[i].extras[j]
                /\ \A i \in 1..Len(self.constraints) :
                        p.constraints[1 + nx + i] = self.constraints[i].expr

C8_Witness ==
    \E c \in Threads :
        /\ Done(c)
        /\ solveRes[c].called
        /\ \E i \in 1..Len(self.costs) : self.costs[i].id = "HoldingCost"
        /\ Len(self.constraints) > 0
        /\ heap[c].status = "optimal"

\* C9: a call, whatever its outcome, leaves the strategy object as it was at
\* entry, the holdings unmutated, and no field holding the problem it built.
C9_StrategyUnchanged ==
    \A c \in Threads :
        Done(c) =>
            /\ self = entry[c].self
            /\ hold[c] = entry[c].hold

\* C10: when two calls interleave, each call solves and interprets the
\* problem it built itself, and returns what its own solve produced.
C10_NoSharedIntermediate ==
    \A c \in Threads :
        /\ usedObj[c] \subseteq {c}
        /\ (Done(c) /\ solveRes[c].called /\ ScaledCase(solveRes[c]))
                => IsScaledBy(outcome[c], hold[c], solveRes[c].zvalue)

====
